---- MODULE Spec2Model ----
(***************************************************************************)
(* Model of the opends command line (src/cli/main.py): the persisted state *)
(* of one datapackage (datapackage.json, the .opends CLI configuration,    *)
(* the run directories with their run configuration and resource files)    *)
(* and one action per CLI command.  Every command runs to completion       *)
(* before the next one starts (the CLI is a single synchronous process).   *)
(***************************************************************************)
EXTENDS Integers, Sequences, FiniteSets, TLC

(***************************************************************************)
(* Bounds of the model.                                                    *)
(***************************************************************************)
\* Number of commands issued in one behaviour.
MaxCmds == 3

(***************************************************************************)
(* Python values.  A value is a record: t is the Python type, s the text   *)
(* of a str, n the number of an int, float or bool in tenths (True is 1).  *)
(* t = "missing" stands for a key that a dict does not have.               *)
(***************************************************************************)
StrV(s) == [t |-> "str", s |-> s, n |-> 0]
IntV(i) == [t |-> "int", s |-> "", n |-> 10 * i]
FloatV(tenths) == [t |-> "float", s |-> "", n |-> tenths]
BoolV(b) == [t |-> "bool", s |-> "", n |-> IF b THEN 10 ELSE 0]
NoneV == [t |-> "NoneType", s |-> "", n |-> 0]
MissingV == [t |-> "missing", s |-> "", n |-> 0]

\* Python's ==: numbers and booleans compare by number, strings by text.
PyEq(a, b) ==
    LET num == {"int", "float", "bool"}
    IN  IF a.t \in num /\ b.t \in num THEN a.n = b.n
        ELSE a.t = b.t /\ a.s = b.s

\* Python's `x in list`, the list being a sequence.
PyIn(x, list) == \E i \in 1..Len(list) : PyEq(x, list[i])

\* Python's truth value of a scalar: None, False, 0, 0.0 and "" are false.
Truthy(x) ==
    CASE x.t = "NoneType" -> FALSE
      [] x.t = "str" -> x.s # ""
      [] OTHER -> x.n # 0

\* dict.get(key) of a key that may be missing: None when it is.
GetOrNone(x) == IF x.t = "missing" THEN NoneV ELSE x

(***************************************************************************)
(* dumb_str_to_type: the command line string of `set` parsed to a value.   *)
(***************************************************************************)
\* The command line strings given to `set` as the value.
ArgValues == {"off", "on", "tab", "bad", "idle", "true", "False", "5", "2.5",
              "None", "''", "a b"}

\* ast.literal_eval: a Python literal evaluates, a bare name is a ValueError,
\* text that is no expression is a SyntaxError.
literal_eval(value) ==
    CASE value = "5" -> [exc |-> "", v |-> IntV(5)]
      [] value = "2.5" -> [exc |-> "", v |-> FloatV(25)]
      [] value = "False" -> [exc |-> "", v |-> BoolV(FALSE)]
      [] value = "True" -> [exc |-> "", v |-> BoolV(TRUE)]
      [] value = "None" -> [exc |-> "", v |-> NoneV]
      [] value = "''" -> [exc |-> "", v |-> StrV("")]
      [] value = "a b" -> [exc |-> "SyntaxError", v |-> NoneV]
      [] OTHER -> [exc |-> "ValueError", v |-> NoneV]

\* str.lower on the strings of ArgValues.
Lower(value) ==
    CASE value = "False" -> "false"
      [] value = "None" -> "none"
      [] OTHER -> value

dumb_str_to_type(value) ==
    LET lit == literal_eval(value)
    IN  IF lit.exc = "" THEN lit
        ELSE IF lit.exc = "ValueError"
             THEN IF Lower(value) = "true" THEN [exc |-> "", v |-> BoolV(TRUE)]
                  ELSE IF Lower(value) = "false"
                       THEN [exc |-> "", v |-> BoolV(FALSE)]
                       ELSE [exc |-> "", v |-> StrV(value)]
             ELSE lit

(***************************************************************************)
(* Names.  A dotted name is the sequence of its components: the run name   *)
(* "alg.a.run" is <<"alg", "a", "run">>.                                   *)
(***************************************************************************)
\* The components that match [a-zA-Z0-9_]+ ; "a-b" is a component that does not.
Words == {"alg", "alg2", "zzz", "a", "run", "mode", "threshold", "flag",
          "label", "table", "params", "result", "ghost", "p", "q"}

\* re.compile(r"^([a-zA-Z0-9_]+)\.([a-zA-Z0-9_]+)$").match
MatchesPattern(name) == Len(name) = 2 /\ name[1] \in Words /\ name[2] \in Words

RUN_EXTENSION == <<"run">>

\* opendatapy get_algorithm_name: the text before the first dot.
get_algorithm_name(run_name) == Head(run_name)

\* The run names given on the command line of init and set-run; given = FALSE
\* is the omitted argument (None).
RunArgs ==
    {[given |-> FALSE, name |-> <<>>]} \cup
    {[given |-> TRUE, name |-> n] :
        n \in {<<"alg", "a">>, <<"alg2", "a">>, <<"zzz", "a">>, <<"alg">>,
               <<"alg", "a-b">>, <<"alg", "a", "run">>}}

(***************************************************************************)
(* The datapackage under test: what its author wrote.  Run operations      *)
(* never change any of this.                                               *)
(***************************************************************************)
\* datapackage.json "algorithms".  "alg2" is declared but its algorithm
\* definition cannot be loaded.
DeclaredAlgorithms == <<"alg", "alg2">>

AlgorithmLoadable(algorithm_name) == algorithm_name = "alg"

Scalar(name, type, null, enum, default) ==
    [name |-> name, type |-> type, null |-> null, profile |-> "",
     enum |-> enum, default |-> [value |-> default, resource |-> ""]]

ResourceVar(name, profile) ==
    [name |-> name, type |-> "resource", null |-> FALSE, profile |-> profile,
     enum |-> <<>>, default |-> [value |-> MissingV, resource |-> name]]

\* algorithm.json of "alg": container and signature.
Algorithm ==
    [container |-> "opends/python-run-base:v1",
     signature |->
        [inputs |->
            << Scalar("mode", "string", FALSE, <<>>, StrV("idle")),
               Scalar("threshold", "number", FALSE, <<>>, IntV(1)),
               Scalar("flag", "boolean", FALSE, <<>>, BoolV(TRUE)),
               Scalar("label", "string", TRUE,
                      << [value |-> StrV("on")], [value |-> StrV("off")] >>,
                      NoneV),
               ResourceVar("table", "tabular-data-resource"),
               ResourceVar("params", "parameter-tabular-data-resource") >>,
         outputs |->
            << Scalar("result", "number", TRUE, <<>>, NoneV) >>]]

\* Resource data: the rows of the table, each with the value of its column
\* (the "init" column of a parameter resource).
Rows(token) == [r |-> StrV(token)]
ParamRows(v) == [p |-> v]

\* A relationship target; the keys a target does not carry are missing.
Target(name, type) ==
    [name |-> name, type |-> type, value |-> MissingV, metaschema |-> MissingV,
     disabled |-> MissingV, schema |-> "", hasData |-> FALSE,
     data |-> Rows("")]

ValueRule(values, targets) ==
    [type |-> "value", values |-> values, targets |-> targets]

\* relationships.json of "alg".  `label` is a target of the relationship of
\* `mode` and `mode` a target of the relationship of `label`; the
\* relationship of `label` has a target of an unknown kind and a rule of an
\* unknown type.
Relationships ==
    << [source |-> "mode",
        rules |->
          << ValueRule(<<StrV("off")>>,
                << [Target("threshold", "value")
                        EXCEPT !.disabled = BoolV(TRUE)] >>),
             ValueRule(<<StrV("on")>>,
                << [Target("threshold", "value")
                        EXCEPT !.value = IntV(5), !.metaschema = StrV("m1"),
                               !.disabled = BoolV(FALSE)],
                   [Target("table", "resource") EXCEPT !.schema = "s2"],
                   [Target("label", "value")
                        EXCEPT !.value = StrV("on")] >>),
             ValueRule(<<StrV("tab")>>,
                << [Target("table", "resource") EXCEPT !.schema = "s1"],
                   [Target("table", "resource")
                        EXCEPT !.hasData = TRUE, !.data = Rows("d1")] >>),
             ValueRule(<<StrV("bad")>>,
                << [Target("table", "resource")
                        EXCEPT !.hasData = TRUE, !.data = Rows("d2")],
                   [Target("ghost", "value")
                        EXCEPT !.disabled = BoolV(TRUE)] >>) >>],
       [source |-> "label",
        rules |->
          << ValueRule(<<StrV("on")>>,
                << [Target("mode", "value") EXCEPT !.value = StrV("off")],
                   [Target("threshold", "variable")
                        EXCEPT !.value = IntV(9)] >>),
             [type |-> "range", values |-> <<>>, targets |-> <<>>] >>] >>

(***************************************************************************)
(* Persisted state.                                                        *)
(***************************************************************************)
VARIABLES
    datapackage,    \* datapackage.json: [algorithms, runs]
    config,         \* the .opends file: [exists, run]
    runDirs,        \* the run directories that exist
    runConfigs,     \* run name -> run configuration, where one is written
    resourceFiles,  \* run name -> (resource name -> resource file)
    last,           \* the last command: arguments and outcome
    pre,            \* the persisted state before the last command
    ncmds           \* number of commands issued

vars == <<datapackage, config, runDirs, runConfigs, resourceFiles, last, pre,
          ncmds>>

Persisted ==
    [datapackage |-> datapackage, config |-> config, runDirs |-> runDirs,
     runConfigs |-> runConfigs, resourceFiles |-> resourceFiles]

NoConfig == [exists |-> FALSE, run |-> <<>>]

NoArg == [given |-> FALSE, name |-> <<>>]

Outcome(cmd, arg, value, ok, err, evaluated) ==
    [cmd |-> cmd, arg |-> arg, value |-> value, ok |-> ok, err |-> err,
     evaluated |-> evaluated]

\* The state of a datapackage that has no run yet.
Init ==
    /\ datapackage = [algorithms |-> DeclaredAlgorithms, runs |-> <<>>]
    /\ config = NoConfig
    /\ runDirs = {}
    /\ runConfigs = << >>
    /\ resourceFiles = << >>
    /\ last = Outcome("none", NoArg, NoneV, TRUE, "", <<>>)
    /\ pre = [datapackage |-> [algorithms |-> DeclaredAlgorithms, runs |-> <<>>],
              config |-> NoConfig, runDirs |-> {}, runConfigs |-> << >>,
              resourceFiles |-> << >>]
    /\ ncmds = 0

(***************************************************************************)
(* Helpers of the CLI and of the opendatapy library it calls.              *)
(***************************************************************************)
\* opendatapy.helpers.find: the index of the first dict of the list whose
\* key has the value, 0 (None) when there is none.
find(list, key, value) ==
    IF \E i \in 1..Len(list) : list[i][key] = value
    THEN CHOOSE i \in 1..Len(list) :
            /\ list[i][key] = value
            /\ \A j \in 1..(i - 1) : list[j][key] # value
    ELSE 0

find_by_name(list, name) == find(list, "name", name)

get_default_algorithm(fs) == fs.datapackage.algorithms[1]

\* Mutant of run_exists: a file is looked for where the run is a directory.
run_exists_isfile(fs, run_name) == run_name \in fs.runDirs \ fs.runDirs

\* run_exists: the run directory exists.
run_exists(fs, run_name) == run_name \in fs.runDirs

\* Mutant of get_full_run_name: the algorithm is not looked up in the
\* package's list.
get_full_run_name_unchecked(fs, arg) ==
    IF arg.given
    THEN IF ~MatchesPattern(arg.name)
         THEN [ok |-> FALSE, name |-> <<>>, err |-> "invalid run name"]
         ELSE [ok |-> TRUE, name |-> arg.name \o RUN_EXTENSION, err |-> ""]
    ELSE [ok |-> TRUE, name |-> <<fs.datapackage.algorithms[1]>>
                                    \o RUN_EXTENSION,
          err |-> ""]

\* get_full_run_name: [ok, name]; ok = FALSE is exit(1).
get_full_run_name(fs, arg) ==
    IF arg.given
    THEN IF ~MatchesPattern(arg.name)
         THEN [ok |-> FALSE, name |-> <<>>, err |-> "invalid run name"]
         ELSE IF ~(\E i \in 1..Len(fs.datapackage.algorithms) :
                      fs.datapackage.algorithms[i] = get_algorithm_name(arg.name))
              THEN [ok |-> FALSE, name |-> <<>>, err |-> "invalid algorithm"]
              ELSE [ok |-> TRUE, name |-> arg.name \o RUN_EXTENSION, err |-> ""]
    ELSE [ok |-> TRUE, name |-> <<get_default_algorithm(fs)>> \o RUN_EXTENSION,
          err |-> ""]

\* The outcome of a handler: the persisted state it leaves, whether the
\* command succeeded, the error that ended it, and the source variables
\* whose relationship it went through (execute_relationship), in order.
Result(fs, ok, err) ==
    [fs |-> fs, ok |-> ok, err |-> err, evaluated |-> <<>>]

\* opendatapy load_run_configuration: the run configuration file parsed;
\* the file may not exist.
RunConfigExists(fs, run_name) == run_name \in DOMAIN fs.runConfigs

load_run_configuration(fs, run_name) == fs.runConfigs[run_name]

\* opendatapy write_run_configuration: the file of run["name"] rewritten.
write_run_configuration(fs, run) ==
    [fs EXCEPT !.runConfigs =
        [n \in (DOMAIN fs.runConfigs) \cup {run.name} |->
            IF n = run.name THEN run ELSE fs.runConfigs[n]]]

\* run["data"]["inputs"] + run["data"]["outputs"]
Variables(run) == run.inputs \o run.outputs

\* The i-th dict of the list, None when i is 0: [found, variable].
Found(list, i) ==
    IF i = 0 THEN [found |-> FALSE, variable |-> list[1]]
    ELSE [found |-> TRUE, variable |-> list[i]]

\* opendatapy load_variable: the run configuration file is parsed and the
\* variable of that name returned: [found, variable].  The dict returned
\* belongs to this parse of the file, not to any dict loaded before.
load_variable(fs, run_name, variable_name) ==
    Found(Variables(load_run_configuration(fs, run_name)),
          find_by_name(Variables(load_run_configuration(fs, run_name)),
                       variable_name))

\* opendatapy load_variable_signature: the declaration of the variable in the
\* signature of the run's algorithm: [found, variable].
load_variable_signature(run_name, variable_name) ==
    Found(Algorithm.signature.inputs \o Algorithm.signature.outputs,
          find_by_name(Algorithm.signature.inputs
                           \o Algorithm.signature.outputs, variable_name))

NoResource == [name |-> "", profile |-> "", schema |-> "", data |-> Rows("")]

\* The resource file of the run the variable v refers to: [found, resource].
ResourceOf(fs, run_name, v) ==
    IF v.found /\ v.variable.resource # ""
       /\ run_name \in DOMAIN fs.resourceFiles
       /\ v.variable.resource \in DOMAIN fs.resourceFiles[run_name]
    THEN [found |-> TRUE,
          resource |-> fs.resourceFiles[run_name][v.variable.resource]]
    ELSE [found |-> FALSE, resource |-> NoResource]

\* opendatapy load_resource_by_variable: the resource file the variable
\* refers to.  It fails for a variable the run does not have and for a
\* variable that refers to no resource.
load_resource_by_variable(fs, run_name, variable_name) ==
    IF ~RunConfigExists(fs, run_name)
    THEN [found |-> FALSE, resource |-> NoResource]
    ELSE ResourceOf(fs, run_name, load_variable(fs, run_name, variable_name))

\* opendatapy write_resource: the resource file of that name rewritten.
write_resource(fs, run_name, resource) ==
    [fs EXCEPT !.resourceFiles[run_name][resource.name] = resource]

\* opendatapy init_resource: the resource file of the run created from the
\* resource the algorithm ships.
init_resource(variable) ==
    [name |-> variable.default.resource, profile |-> variable.profile,
     schema |-> "s0",
     data |-> IF variable.profile = "parameter-tabular-data-resource"
              THEN ParamRows(IntV(0)) ELSE Rows("d0")]

(***************************************************************************)
(* execute_relationship                                                    *)
(***************************************************************************)
\* Mutant of ReplaceFields: data that is already the target's is taken out
\* instead of written again.
ReplaceFieldsToggling(resource, target) ==
    [resource EXCEPT
        !.data = IF ~target.hasData THEN @
                 ELSE IF @ = target.data THEN Rows("") ELSE target.data,
        !.schema = IF target.schema # "" THEN target.schema ELSE @]

\* Mutant of ReplaceFields: both fields are taken from the target, whether
\* it carries them or not.
ReplaceFieldsOverwriting(resource, target) ==
    [resource EXCEPT !.data = target.data, !.schema = target.schema]

\* `if target.get("data") is not None` and `if target.get("schema") is not
\* None`: the fields the target supplies replace the resource's.
ReplaceFields(resource, target) ==
    [resource EXCEPT
        !.data = IF target.hasData THEN target.data ELSE @,
        !.schema = IF target.schema # "" THEN target.schema ELSE @]

\* The resource branch of a target: load, replace, write_resource.
ApplyResourceTarget(fs, run, target, r) ==
    IF ~r.found THEN Result(fs, FALSE, "ResourceError")
    ELSE Result(write_resource(fs, run.name, ReplaceFields(r.resource, target)),
                TRUE, "")

\* The value branch of a target.  target_variable is a dict of
\* load_variable's own parse of the run configuration file: the assignments
\* to it change neither the file nor the dict `run` that
\* execute_relationship writes back at its end.  Assigning to a key of a
\* variable that does not exist (None) raises.
ApplyValueTarget(fs, target, target_variable) ==
    IF ~target_variable.found
       /\ (GetOrNone(target.value).t # "NoneType"
           \/ GetOrNone(target.metaschema).t # "NoneType")
    THEN Result(fs, FALSE, "TypeError")
    ELSE Result(fs, TRUE, "")

\* One target of a triggered rule (the body of `for target in ...`).  `fs`
\* is the persisted state when the target is reached; the result is the
\* persisted state after it and the exception raised, if any.  The
\* `disabled` of the target is assigned to a dict of load_variable, as in
\* the value branch.
ApplyTarget(fs, run, run_name, target) ==
    IF target.disabled.t # "missing"
       /\ ~load_variable(fs, run_name, target.name).found
    THEN Result(fs, FALSE, "TypeError")
    ELSE IF target.type = "resource"
    THEN ApplyResourceTarget(fs, run, target,
            load_resource_by_variable(fs, run.name, target.name))
    ELSE IF target.type = "value"
    THEN ApplyValueTarget(fs, target,
            load_variable(fs, run_name, target.name))
    ELSE Result(fs, FALSE, "NotImplementedError")

\* The targets of a triggered rule from the j-th on, in order; the first
\* exception ends the loop.
RECURSIVE ApplyTargets(_, _, _, _, _)

\* The loop goes on after the j-th target unless that target raised.
AfterTarget(applied, run, run_name, targets, j) ==
    IF ~applied.ok THEN applied
    ELSE ApplyTargets(applied.fs, run, run_name, targets, j + 1)

ApplyTargets(fs, run, run_name, targets, j) ==
    IF j > Len(targets) THEN Result(fs, TRUE, "")
    ELSE AfterTarget(ApplyTarget(fs, run, run_name, targets[j]),
                     run, run_name, targets, j)

\* Mutant of RuleMatches: the membership test left out.
RuleMatchesAlways(value, rule) == Len(rule.values) >= 0

\* `if value in rule["values"]`
RuleMatches(value, rule) == PyIn(value, rule.values)

\* Mutant of ApplyRule: a rule of another type than "value" is passed over.
ApplyRuleSkipping(fs, run, run_name, variable_name, rule) ==
    IF rule.type # "value" THEN Result(fs, TRUE, "")
    ELSE IF ~load_variable(fs, run_name, variable_name).found
    THEN Result(fs, FALSE, "TypeError")
    ELSE IF RuleMatches(
                load_variable(fs, run_name, variable_name).variable.value, rule)
    THEN ApplyTargets(fs, run, run_name, rule.targets, 1)
    ELSE Result(fs, TRUE, "")

\* One rule (the body of `for rule in relationship["rules"]`).
ApplyRule(fs, run, run_name, variable_name, rule) ==
    IF rule.type = "value"
    THEN IF ~load_variable(fs, run_name, variable_name).found
         THEN Result(fs, FALSE, "TypeError")
         ELSE IF RuleMatches(
                    load_variable(fs, run_name, variable_name).variable.value,
                    rule)
         THEN ApplyTargets(fs, run, run_name, rule.targets, 1)
         ELSE Result(fs, TRUE, "")
    ELSE Result(fs, FALSE, "NotImplementedError")

\* The rules from the i-th on, in order.
RECURSIVE ApplyRules(_, _, _, _, _, _)

\* The loop goes on after the i-th rule unless that rule raised.
AfterRule(applied, run, run_name, variable_name, rules, i) ==
    IF ~applied.ok THEN applied
    ELSE ApplyRules(applied.fs, run, run_name, variable_name, rules, i + 1)

ApplyRules(fs, run, run_name, variable_name, rules, i) ==
    IF i > Len(rules) THEN Result(fs, TRUE, "")
    ELSE AfterRule(ApplyRule(fs, run, run_name, variable_name, rules[i]),
                   run, run_name, variable_name, rules, i)

\* The end of execute_relationship: the run loaded at the start is written
\* back, unless a rule raised.
WriteBack(applied, run) ==
    IF ~applied.ok THEN applied
    ELSE Result(write_run_configuration(applied.fs, run), TRUE, "")

\* The target names of the rules that are sources of a relationship, rule
\* by rule.
RECURSIVE SourcesAmongTargets(_, _)
SourcesAmongTargets(rules, i) ==
    IF i > Len(rules) THEN <<>>
    ELSE SelectSeq([j \in 1..Len(rules[i].targets) |->
                        rules[i].targets[j].name],
                   LAMBDA n : find(Relationships, "source", n) # 0)
         \o SourcesAmongTargets(rules, i + 1)

\* Mutant of ExecuteFound: the relationships of the targets are gone
\* through after the relationship of the source.
ExecuteFoundCascading(fs, run, run_name, variable_name, k) ==
    IF k = 0 THEN Result(fs, FALSE, "TypeError")
    ELSE [ok |-> TRUE, err |-> "",
          fs |-> write_run_configuration(fs, run),
          evaluated |-> <<variable_name>>
                \o SourcesAmongTargets(Relationships[k].rules, 1)]

\* The relationship found (the k-th; none when k is 0), applied to the run
\* loaded at the start.  Its rules are gone through once; nothing in the
\* loops calls execute_relationship again.
ExecuteFound(fs, run, run_name, variable_name, k) ==
    IF k = 0 THEN Result(fs, FALSE, "TypeError")
    ELSE [WriteBack(ApplyRules(fs, run, run_name, variable_name,
                               Relationships[k].rules, 1),
                    run)
            EXCEPT !.evaluated = <<variable_name>>]

\* execute_relationship(run_name, variable_name) from the persisted state
\* fs.  find returns None when no relationship has the source, and
\* None["rules"] raises.
execute_relationship(fs, run_name, variable_name) ==
    IF ~RunConfigExists(fs, run_name)
    THEN Result(fs, FALSE, "FileNotFoundError")
    ELSE ExecuteFound(fs, load_run_configuration(fs, run_name), run_name,
                      variable_name,
                      find(Relationships, "source", variable_name))

(***************************************************************************)
(* Commands.  Each handler is an operator from the persisted state and the *)
(* command's arguments to a Result; Command commits it.                    *)
(***************************************************************************)
\* Mutant of HasActiveRun: a package with run directories passes for one
\* with an active run.
HasActiveRunOrRuns(fs) == fs.config.exists \/ fs.runDirs # {}

\* get_active_run: exit(1) when the .opends file does not exist.
HasActiveRun(fs) == fs.config.exists

get_active_run(fs) == fs.config.run

\* write_config
write_config(fs, run_name) ==
    [fs EXCEPT !.config = [exists |-> TRUE, run |-> run_name]]

\* The variable instance init writes: {"name": ..., **variable["default"]}.
Instance(variable) ==
    [name |-> variable.name, value |-> variable.default.value,
     metaschema |-> MissingV, disabled |-> MissingV,
     resource |-> variable.default.resource]

\* The run configuration init generates.
DefaultRun(run_name) ==
    [name |-> run_name,
     algorithm |-> get_algorithm_name(run_name),
     container |-> Algorithm.container,
     inputs |-> [i \in 1..Len(Algorithm.signature.inputs) |->
                    Instance(Algorithm.signature.inputs[i])],
     outputs |-> [i \in 1..Len(Algorithm.signature.outputs) |->
                    Instance(Algorithm.signature.outputs[i])]]

\* The resource files init creates: one per resource variable.
DefaultResources ==
    LET list == Algorithm.signature.inputs \o Algorithm.signature.outputs
        res == {i \in 1..Len(list) : list[i].type = "resource"}
    IN  [name \in {list[i].default.resource : i \in res} |->
            init_resource(list[CHOOSE i \in res :
                                  list[i].default.resource = name])]

\* os.makedirs of the run directory.
MakeRunDir(fs, run_name) ==
    [fs EXCEPT !.runDirs = fs.runDirs \cup {run_name}]

\* datapackage["runs"].append(run_name), written to datapackage.json.
AppendRun(fs, run_name) ==
    [fs EXCEPT !.datapackage.runs = Append(fs.datapackage.runs, run_name)]

\* The resource files of the run created, one init_resource per resource
\* variable.
InitResources(fs, run_name) ==
    [fs EXCEPT !.resourceFiles =
        [n \in (DOMAIN fs.resourceFiles) \cup {run_name} |->
            IF n = run_name THEN DefaultResources ELSE fs.resourceFiles[n]]]

\* init after its checks: the directory, then the algorithm, then the files.
InitRun(fs, run_name) ==
    IF ~AlgorithmLoadable(get_algorithm_name(run_name))
    THEN Result(MakeRunDir(fs, run_name), FALSE, "FileNotFoundError")
    ELSE Result(
            write_config(
                AppendRun(
                    write_run_configuration(
                        InitResources(MakeRunDir(fs, run_name), run_name),
                        DefaultRun(run_name)),
                    run_name),
                run_name),
            TRUE, "")

InitNamed(fs, full) ==
    IF ~full.ok THEN Result(fs, FALSE, full.err)
    ELSE IF run_exists(fs, full.name) THEN Result(fs, FALSE, "already exists")
    ELSE InitRun(fs, full.name)

\* init(run_name)
init_handler(fs, arg) == InitNamed(fs, get_full_run_name(fs, arg))

SetRunNamed(fs, full) ==
    IF ~full.ok THEN Result(fs, FALSE, full.err)
    ELSE IF run_exists(fs, full.name)
    THEN Result(write_config(fs, full.name), TRUE, "")
    ELSE Result(fs, TRUE, "does not exist")

\* set_run(run_name): a run that does not exist is reported, and the
\* command returns normally.
set_run_handler(fs, arg) == SetRunNamed(fs, get_full_run_name(fs, arg))

\* get_run()
get_run_handler(fs) ==
    IF ~HasActiveRun(fs) THEN Result(fs, FALSE, "no active run")
    ELSE Result(fs, TRUE, "")

\* The execution backend (execute_datapackage): on success it has written
\* the output variables into the run configuration; on failure it raises
\* ExecutionError.  A run without a run configuration cannot be executed.
execute_datapackage(fs, run_name, succeeds) ==
    IF ~succeeds \/ ~RunConfigExists(fs, run_name)
    THEN Result(fs, FALSE, "ExecutionError")
    ELSE LET cfg == load_run_configuration(fs, run_name)
             i == find_by_name(cfg.outputs, "result")
         IN  Result(write_run_configuration(fs,
                        [cfg EXCEPT !.outputs[i].value = IntV(7)]),
                    TRUE, "")

\* The outputs of the run of that name reset to None.
ClearedOutputs(fs, run_name) ==
    IF ~RunConfigExists(fs, run_name) THEN fs
    ELSE write_run_configuration(fs,
            [load_run_configuration(fs, run_name) EXCEPT
                !.outputs = [i \in 1..Len(@) |-> [@[i] EXCEPT !.value = NoneV]]])

\* Mutant of run_handler: the outputs are reset before the backend runs.
run_handler_resets(fs, succeeds) ==
    IF ~fs.config.exists THEN Result(fs, FALSE, "no active run")
    ELSE execute_datapackage(ClearedOutputs(fs, fs.config.run),
                             fs.config.run, succeeds)

\* run()
run_handler(fs, succeeds) ==
    IF ~HasActiveRun(fs) THEN Result(fs, FALSE, "no active run")
    ELSE execute_datapackage(fs, get_active_run(fs), succeeds)

\* show of a variable of the active run, sig its declaration.
ShowDeclared(fs, run_name, variable_name, sig) ==
    IF ~sig.found THEN Result(fs, FALSE, "TypeError")
    ELSE IF sig.variable.type = "resource"
    THEN IF load_resource_by_variable(fs, run_name, variable_name).found
         THEN Result(fs, TRUE, "")
         ELSE Result(fs, FALSE, "ResourceError")
    ELSE IF ~RunConfigExists(fs, run_name)
    THEN Result(fs, FALSE, "FileNotFoundError")
    ELSE IF load_variable(fs, run_name, variable_name).found
    THEN Result(fs, TRUE, "")
    ELSE Result(fs, FALSE, "TypeError")

\* show(variable_name): reads only.
show_handler(fs, variable_name) ==
    IF ~HasActiveRun(fs) THEN Result(fs, FALSE, "no active run")
    ELSE IF ~AlgorithmLoadable(get_algorithm_name(get_active_run(fs)))
    THEN Result(fs, FALSE, "FileNotFoundError")
    ELSE ShowDeclared(fs, get_active_run(fs), variable_name,
            load_variable_signature(get_active_run(fs), variable_name))

\* view(view_name): the rendering backend writes view artefacts only.
view_handler(fs, succeeds) ==
    IF ~HasActiveRun(fs) THEN Result(fs, FALSE, "no active run")
    ELSE IF ~succeeds \/ ~RunConfigExists(fs, get_active_run(fs))
    THEN Result(fs, FALSE, "ExecutionError")
    ELSE Result(fs, TRUE, "")

\* The files `load` can be given: pd.read_csv of a file that exists.
CsvFiles == {"a.csv"}

read_csv(path) == Rows("csv")

\* load with the resource r of the variable loaded.
LoadInto(fs, run_name, path, r) ==
    IF ~r.found THEN Result(fs, FALSE, "ResourceError")
    ELSE IF path \notin CsvFiles THEN Result(fs, FALSE, "FileNotFoundError")
    ELSE Result(write_resource(fs, run_name,
                    [r.resource EXCEPT !.data = read_csv(path)]),
                TRUE, "")

\* load(variable_name, path)
load_handler(fs, variable_name, path) ==
    IF ~HasActiveRun(fs) THEN Result(fs, FALSE, "no active run")
    ELSE LoadInto(fs, get_active_run(fs), path,
            load_resource_by_variable(fs, get_active_run(fs), variable_name))

(***************************************************************************)
(* set                                                                     *)
(***************************************************************************)
\* The variable references given to `set`, split at the dots.
SetRefs == {<<"mode">>, <<"threshold">>, <<"flag">>, <<"label">>, <<"table">>,
            <<"params">>, <<"ghost">>, <<"params", "p">>, <<"params", "q">>,
            <<"table", "r">>, <<"params", "a-b">>}

\* type_map.get(signature["type"], False): `float | int` is a union object,
\* which is no class.
type_map(type) ==
    CASE type = "string" -> "str"
      [] type = "boolean" -> "bool"
      [] type = "number" -> "float | int"
      [] OTHER -> "False"

\* type(variable_value)
TypeOf(value) == value.t

\* Mutant of TypeMismatch: a string, which every command line argument is,
\* passes for any type.
TypeMismatchStringsPass(signature, value) ==
    type_map(signature.type) # TypeOf(value) /\ TypeOf(value) # "str"

\* `type_map.get(signature["type"], False) != type(variable_value)`
TypeMismatch(signature, value) == type_map(signature.type) # TypeOf(value)

\* The enum check: the value is refused when the variable has an enum and
\* the value is not among its values.
EnumRefuses(signature, value) ==
    /\ Len(signature.enum) > 0
    /\ ~PyIn(value, [i \in 1..Len(signature.enum) |-> signature.enum[i].value])

\* The nullability check: `if not signature["null"]: if not variable_value`.
NullRefuses(signature, value) == ~signature.null /\ ~Truthy(value)

\* find_by_name(inputs + outputs, variable_name)["value"] = variable_value
SetValue(run, variable_name, value) ==
    LET i == find_by_name(run.inputs, variable_name)
        o == find_by_name(run.outputs, variable_name)
    IN  IF i # 0 THEN [run EXCEPT !.inputs[i].value = value]
        ELSE [run EXCEPT !.outputs[o].value = value]

\* The command's outcome is that of the `show` that ends it.
ThenShow(fs, variable_name) ==
    Result(fs, show_handler(fs, variable_name).ok,
           show_handler(fs, variable_name).err)

\* The parameter branch of set with the resource r loaded.
SetParamOf(fs, run_name, variable_name, param_name, value, r) ==
    IF ~r.found THEN Result(fs, FALSE, "ResourceError")
    ELSE IF r.resource.profile # "parameter-tabular-data-resource"
    THEN Result(fs, FALSE, "not a parameter resource")
    ELSE IF DOMAIN r.resource.data = {} THEN Result(fs, FALSE, "data is empty")
    ELSE IF param_name \notin DOMAIN r.resource.data
    THEN Result(fs, FALSE, "KeyError")
    ELSE ThenShow(write_resource(fs, run_name,
                      [r.resource EXCEPT !.data[param_name] = value]),
                  variable_name)

\* The parameter branch of set: "<resource>.<parameter>".
set_param(fs, run_name, variable_ref, value) ==
    IF ~MatchesPattern(variable_ref) THEN Result(fs, FALSE, "invalid reference")
    ELSE SetParamOf(fs, run_name, variable_ref[1], variable_ref[2], value,
            load_resource_by_variable(fs, run_name, variable_ref[1]))

\* The checks on the value against the declaration of the variable: the
\* error that ends the command, "" when the value is accepted.
CheckValue(signature, value) ==
    IF signature.profile = "tabular-data-resource" THEN "use load"
    ELSE IF signature.profile = "parameter-tabular-data-resource"
    THEN "use set-param"
    ELSE IF TypeMismatch(signature, value) THEN "type"
    ELSE IF EnumRefuses(signature, value) THEN "enum"
    ELSE IF NullRefuses(signature, value) THEN "null"
    ELSE ""

\* The checks of the variable branch of set, before anything is written.
CheckDeclared(sig, value) ==
    IF ~sig.found THEN "AttributeError" ELSE CheckValue(sig.variable, value)

set_check(run_name, variable_name, value) ==
    IF ~AlgorithmLoadable(get_algorithm_name(run_name))
    THEN "FileNotFoundError"
    ELSE CheckDeclared(load_variable_signature(run_name, variable_name), value)

\* The end of set: the variable is shown, unless execute_relationship
\* raised.
AfterExecute(executed, variable_name) ==
    IF ~executed.ok THEN executed
    ELSE [ThenShow(executed.fs, variable_name)
            EXCEPT !.evaluated = executed.evaluated]

\* The value written to the run configuration, then the relationship of
\* the variable executed, then the variable shown.
WriteAndExecute(fs, run_name, variable_name, value) ==
    AfterExecute(
        execute_relationship(
            write_run_configuration(fs,
                SetValue(load_run_configuration(fs, run_name), variable_name,
                         value)),
            run_name, variable_name),
        variable_name)

\* The variable branch of set: check, write the value, execute the
\* relationship of the variable, show the variable.
set_variable(fs, run_name, variable_name, value) ==
    IF set_check(run_name, variable_name, value) # ""
    THEN Result(fs, FALSE, set_check(run_name, variable_name, value))
    ELSE IF ~RunConfigExists(fs, run_name)
    THEN Result(fs, FALSE, "FileNotFoundError")
    ELSE WriteAndExecute(fs, run_name, variable_name, value)

\* set(variable_ref, variable_value); parsed is dumb_str_to_type of the
\* value given.
set_handler(fs, variable_ref, parsed) ==
    IF ~HasActiveRun(fs) THEN Result(fs, FALSE, "no active run")
    ELSE IF parsed.exc # "" THEN Result(fs, FALSE, parsed.exc)
    ELSE IF Len(variable_ref) > 1
    THEN set_param(fs, get_active_run(fs), variable_ref, parsed.v)
    ELSE set_variable(fs, get_active_run(fs), variable_ref[1], parsed.v)

(***************************************************************************)
(* reset                                                                   *)
(***************************************************************************)
\* Mutant of IsRunDir: only "<algorithm>.run" is taken for a run directory.
IsRunDirOfDefault(dir) == Len(dir) = 2 /\ dir[Len(dir)] = "run"

\* `f.is_dir() and f.path.endswith(".run")`
IsRunDir(dir) == dir[Len(dir)] = "run"

\* shutil.rmtree of every run directory, with the files in it.
RemoveRunDirs(fs) ==
    LET kept == {d \in fs.runDirs : ~IsRunDir(d)}
    IN  [fs EXCEPT !.runDirs = kept,
                   !.runConfigs = [n \in (DOMAIN fs.runConfigs) \cap kept |->
                                      fs.runConfigs[n]],
                   !.resourceFiles =
                        [n \in (DOMAIN fs.resourceFiles) \cap kept |->
                            fs.resourceFiles[n]]]

\* datapackage["runs"] = [], written to datapackage.json.
ClearRuns(fs) == [fs EXCEPT !.datapackage.runs = <<>>]

\* Mutant of RemoveConfig: the .opends file is left in place.
RemoveConfigKept(fs) == fs

\* os.remove(CONFIG_FILE) when it exists.
RemoveConfig(fs) == [fs EXCEPT !.config = NoConfig]

reset_handler(fs) ==
    Result(RemoveConfig(ClearRuns(RemoveRunDirs(fs))), TRUE, "")

(***************************************************************************)
(* The state machine: one action per command.                              *)
(***************************************************************************)
Command(cmd, arg, value, result) ==
    /\ ncmds < MaxCmds
    /\ ncmds' = ncmds + 1
    /\ pre' = Persisted
    /\ last' = Outcome(cmd, arg, value, result.ok, result.err,
                        result.evaluated)
    /\ datapackage' = result.fs.datapackage
    /\ config' = result.fs.config
    /\ runDirs' = result.fs.runDirs
    /\ runConfigs' = result.fs.runConfigs
    /\ resourceFiles' = result.fs.resourceFiles

Ref(name) == [given |-> TRUE, name |-> name]

init ==
    \E arg \in RunArgs :
        Command("init", arg, NoneV, init_handler(Persisted, arg))

set_run ==
    \E arg \in RunArgs :
        Command("set_run", arg, NoneV, set_run_handler(Persisted, arg))

get_run == Command("get_run", NoArg, NoneV, get_run_handler(Persisted))

run ==
    \E succeeds \in BOOLEAN :
        Command("run", NoArg, BoolV(succeeds),
                run_handler(Persisted, succeeds))

show ==
    \E variable_name \in {"mode", "table", "ghost"} :
        Command("show", Ref(<<variable_name>>), NoneV,
                show_handler(Persisted, variable_name))

view ==
    \E succeeds \in BOOLEAN :
        Command("view", NoArg, BoolV(succeeds),
                view_handler(Persisted, succeeds))

load ==
    \E variable_name \in {"table", "mode"}, path \in {"a.csv", "missing.csv"} :
        Command("load", Ref(<<variable_name>>), StrV(path),
                load_handler(Persisted, variable_name, path))

set ==
    \E variable_ref \in SetRefs, variable_value \in ArgValues :
        Command("set", Ref(variable_ref), dumb_str_to_type(variable_value).v,
                set_handler(Persisted, variable_ref,
                            dumb_str_to_type(variable_value)))

reset == Command("reset", NoArg, NoneV, reset_handler(Persisted))

Next ==
    \/ init
    \/ set_run
    \/ get_run
    \/ run
    \/ show
    \/ view
    \/ load
    \/ set
    \/ reset

Spec == Init /\ [][Next]_vars

(***************************************************************************)
(* Properties.  `last` is the command that led to the state and `pre` the  *)
(* persisted state it started from.                                        *)
(***************************************************************************)
\* The last command was `set <variable> <value>` of a plain variable name,
\* issued with an active run that has a run configuration.
SetOfVariable ==
    /\ last.cmd = "set"
    /\ Len(last.arg.name) = 1
    /\ pre.config.exists
    /\ RunConfigExists(pre, pre.config.run)

SetName == last.arg.name[1]

\* The variable of that name in the run configuration of the active run.
VarIn(fs, name) ==
    load_variable(fs, fs.config.run, name).variable

HasVar(fs, name) == load_variable(fs, fs.config.run, name).found

\* The rules of the relationship whose source is the variable set; none
\* when the variable has no relationship.
RulesOfSet ==
    IF find(Relationships, "source", SetName) = 0 THEN <<>>
    ELSE Relationships[find(Relationships, "source", SetName)].rules

\* The rules the value set triggers.
Triggered ==
    {i \in 1..Len(RulesOfSet) :
        RulesOfSet[i].type = "value" /\ PyIn(last.value, RulesOfSet[i].values)}

\* The value was accepted by the checks of set.
Accepted == set_check(pre.config.run, SetName, last.value) = ""

\* C1: a set that triggers a rule with a target carrying `disabled: d` (and
\* no value) completes with the target's disabled flag equal to d in the
\* persisted run configuration and the target's value as it was.
C1_DisabledPropagation ==
    (SetOfVariable /\ Accepted /\ last.ok) =>
        \A i \in Triggered :
            \A j \in 1..Len(RulesOfSet[i].targets) :
                LET target == RulesOfSet[i].targets[j]
                IN  (target.disabled.t # "missing"
                     /\ target.value.t = "missing"
                     /\ HasVar(pre, target.name)) =>
                        /\ VarIn(Persisted, target.name).disabled
                                = target.disabled
                        /\ VarIn(Persisted, target.name).value
                                = VarIn(pre, target.name).value

\* C2: a set that triggers a rule with a target of kind `value` carrying a
\* value v and/or a metaschema m completes with value = v and/or
\* metaschema = m for the target in the persisted run configuration.
C2_ValueTargetPropagation ==
    (SetOfVariable /\ Accepted /\ last.ok) =>
        \A i \in Triggered :
            \A j \in 1..Len(RulesOfSet[i].targets) :
                LET target == RulesOfSet[i].targets[j]
                IN  (target.type = "value" /\ HasVar(pre, target.name)) =>
                        /\ GetOrNone(target.value).t # "NoneType" =>
                             VarIn(Persisted, target.name).value
                                = target.value
                        /\ GetOrNone(target.metaschema).t # "NoneType" =>
                             VarIn(Persisted, target.name).metaschema
                                = target.metaschema

\* The set triggered a rule of two targets whose second target names a
\* variable the run does not have.
SecondTargetMissing ==
    \E i \in Triggered :
        /\ Len(RulesOfSet[i].targets) = 2
        /\ ~HasVar(pre, RulesOfSet[i].targets[2].name)

\* C3: a set that triggers a rule whose second target names a variable
\* that does not exist fails, and the run configurations and the resources
\* are what they were before the set.
C3_AtomicFailure ==
    (SetOfVariable /\ Accepted /\ SecondTargetMissing) =>
        /\ ~last.ok
        /\ runConfigs = pre.runConfigs
        /\ resourceFiles = pre.resourceFiles

\* The persisted state with the value of one variable of the active run
\* replaced.
WithValue(fs, name, value) ==
    write_run_configuration(fs,
        SetValue(load_run_configuration(fs, fs.config.run), name, value))

\* C4: a set of a variable that has no relationship completes, and changes
\* nothing but the value of that variable.
C4_MissingRelationshipNoOp ==
    (SetOfVariable /\ Accepted
        /\ find(Relationships, "source", SetName) = 0) =>
        /\ last.ok
        /\ Persisted = WithValue(pre, SetName, last.value)

\* C5: a set of a source variable to a value that is in the trigger values
\* of none of the rules of its relationship leaves every other variable of
\* the run and every resource of the run unchanged.
C5_UnmatchedTriggerNoOp ==
    (SetOfVariable /\ find(Relationships, "source", SetName) # 0
        /\ \A i \in 1..Len(RulesOfSet) :
              ~PyIn(last.value, RulesOfSet[i].values)) =>
        /\ \A v \in 1..Len(Variables(pre.runConfigs[pre.config.run])) :
              Variables(pre.runConfigs[pre.config.run])[v].name # SetName =>
                 Variables(runConfigs[pre.config.run])[v]
                    = Variables(pre.runConfigs[pre.config.run])[v]
        /\ resourceFiles = pre.resourceFiles

\* A set of `mode` to a value that triggers nothing went through, after a
\* set that had changed a resource.
C5_Witness ==
    /\ SetOfVariable /\ last.ok /\ SetName = "mode"
    /\ last.value = StrV("idle")
    /\ VarIn(pre, "mode").value # StrV("idle")
    /\ VarIn(Persisted, "mode").value = StrV("idle")
    /\ resourceFiles[config.run]["table"].schema = "s1"

\* The declaration of the variable set.
SetSignature == load_variable_signature(pre.config.run, SetName)

\* C6: a set of a number-typed, non-nullable variable to a string is
\* rejected and nothing is written: run configurations, resources, package
\* configuration and active-run pointer are unchanged.
C6_TypeEnforcement ==
    (SetOfVariable /\ SetSignature.found
        /\ SetSignature.variable.type = "number"
        /\ ~SetSignature.variable.null
        /\ last.value.t = "str") =>
        /\ ~last.ok
        /\ Persisted = pre

\* A string was given for `threshold` and refused by the type check.
C6_Witness ==
    /\ SetOfVariable /\ SetName = "threshold" /\ last.value = StrV("off")
    /\ AlgorithmLoadable(get_algorithm_name(pre.config.run))
    /\ last.err = "type"

\* The value has the declared type of the variable.
WellTyped(signature, value) ==
    \/ signature.type = "string" /\ value.t = "str"
    \/ signature.type = "boolean" /\ value.t = "bool"
    \/ signature.type = "number" /\ value.t \in {"int", "float"}

\* C7: a set of a scalar variable to a non-null value of the declared type
\* that is among the enum values, if any, is accepted, and the persisted
\* run configuration holds the value.
C7_WellTypedAccepted ==
    (SetOfVariable /\ SetSignature.found
        /\ AlgorithmLoadable(get_algorithm_name(pre.config.run))
        /\ WellTyped(SetSignature.variable, last.value)
        /\ ~EnumRefuses(SetSignature.variable, last.value)) =>
        /\ Accepted
        /\ VarIn(Persisted, SetName).value = last.value

\* The algorithm named by the prefix of the run name given is declared.
PrefixDeclared(fs, name) ==
    \E i \in 1..Len(fs.datapackage.algorithms) :
        fs.datapackage.algorithms[i] = Head(name)

\* C8: init of a run whose prefix algorithm is not declared in the package
\* fails; no run directory is created, the run list and the active-run
\* pointer are unchanged.
C8_LifecycleGating ==
    (last.cmd = "init" /\ last.arg.given /\ Len(last.arg.name) > 0
        /\ ~PrefixDeclared(pre, last.arg.name)) =>
        /\ ~last.ok
        /\ runDirs = pre.runDirs
        /\ datapackage.runs = pre.datapackage.runs
        /\ config = pre.config

\* init of a run of an undeclared algorithm was refused in a package that
\* has a run.
C8_Witness ==
    /\ last.cmd = "init" /\ last.arg.name = <<"zzz", "a">> /\ ~last.ok
    /\ last.err = "invalid algorithm"
    /\ runDirs # {}

\* C9: init of a run whose directory exists fails; the run's configuration
\* and resources, the run list and the active-run pointer are unchanged.
C9_InitExistingFails ==
    (last.cmd = "init" /\ get_full_run_name(pre, last.arg).ok
        /\ get_full_run_name(pre, last.arg).name \in pre.runDirs) =>
        /\ ~last.ok
        /\ Persisted = pre

\* init was refused for a run that exists and that a set had changed.
C9_Witness ==
    /\ last.cmd = "init" /\ last.err = "already exists"
    /\ get_full_run_name(pre, last.arg).name \in DOMAIN runConfigs
    /\ runConfigs[get_full_run_name(pre, last.arg).name]
        # DefaultRun(get_full_run_name(pre, last.arg).name)

\* C10: reset ends in the absent state: no run directory, no run file, an
\* empty run list, no active-run pointer; the declared algorithms are
\* unchanged.
C10_ResetToAbsent ==
    last.cmd = "reset" =>
        /\ last.ok
        /\ runDirs = {}
        /\ DOMAIN runConfigs = {}
        /\ DOMAIN resourceFiles = {}
        /\ datapackage.runs = <<>>
        /\ ~config.exists
        /\ datapackage.algorithms = pre.datapackage.algorithms

\* reset ran in a package with two runs and an active run.
C10_Witness ==
    /\ last.cmd = "reset"
    /\ Cardinality(pre.runDirs) >= 2
    /\ Len(pre.datapackage.runs) >= 2
    /\ pre.config.exists

\* The run that set-run or init was asked for: [ok, name].
Asked == get_full_run_name(pre, last.arg)

\* C11: set-run makes the run active when the name given is valid and the
\* run exists; in every other case the command fails and the active-run
\* pointer keeps its value.
C11_SetRunGating ==
    last.cmd = "set_run" =>
        IF Asked.ok /\ Asked.name \in pre.runDirs
        THEN last.ok /\ config = [exists |-> TRUE, run |-> Asked.name]
        ELSE ~last.ok /\ config = pre.config

\* The run names recorded: the names of the run configurations, the run
\* list of the package and the active-run pointer.
RecordedNames ==
    {runConfigs[n].name : n \in DOMAIN runConfigs}
        \cup {datapackage.runs[i] : i \in 1..Len(datapackage.runs)}
        \cup (IF config.exists THEN {config.run} ELSE {})

\* C12 as claimed: every recorded run name matches
\* ^[a-zA-Z0-9_]+\.[a-zA-Z0-9_]+$ and its prefix is a declared algorithm.
C12_NamingRule ==
    \A n \in RecordedNames :
        MatchesPattern(n) /\ PrefixDeclared(Persisted, n)

\* C12 as amended: every recorded run name is the name accepted followed
\* by ".run": "<algorithm>.run" for the omitted name, and
\* "<algorithm>.<label>.run" with "<algorithm>.<label>" matching the pattern
\* for a name given; its prefix is a declared algorithm.
C12_RecordedNames ==
    \A n \in RecordedNames :
        /\ Len(n) \in {Len(RUN_EXTENSION) + 1, Len(RUN_EXTENSION) + 2}
        /\ SubSeq(n, Len(n), Len(n)) = RUN_EXTENSION
        /\ PrefixDeclared(Persisted, n)
        /\ Len(n) = Len(RUN_EXTENSION) + 2 =>
                MatchesPattern(SubSeq(n, 1, Len(n) - 1))

\* A run initialised without a name and a run initialised with one are
\* both recorded, the second one active.
C12_Witness ==
    /\ config = [exists |-> TRUE, run |-> <<"alg", "a", "run">>]
    /\ <<"alg", "a", "run">> \in DOMAIN runConfigs
    /\ <<"alg", "run">> \in DOMAIN runConfigs
    /\ Len(datapackage.runs) = Cardinality(DOMAIN runConfigs)

\* C13: when the backend fails during run, the command fails and nothing
\* is written: run configurations, resources, run list and active-run
\* pointer are what they were.
C13_ExecutionFailure ==
    (last.cmd = "run" /\ pre.config.exists /\ last.value = BoolV(FALSE)) =>
        /\ ~last.ok
        /\ last.err = "ExecutionError"
        /\ Persisted = pre

\* The backend failed on a run that an earlier execution had completed.
C13_Witness ==
    /\ last.cmd = "run" /\ last.value = BoolV(FALSE) /\ ~last.ok
    /\ config.exists /\ RunConfigExists(Persisted, config.run)
    /\ VarIn(Persisted, "result").value = IntV(7)

\* C14: every successful set (of a variable or of <resource>.<parameter>)
\* and every successful load has evaluated, within the command, the
\* relationship whose source is the variable it changed.
C14_MutationTriggersPropagation ==
    (last.cmd \in {"set", "load"} /\ pre.config.exists /\ last.ok) =>
        last.evaluated = <<last.arg.name[1]>>

\* The source variables of the relationships.
Sources == {Relationships[k].source : k \in 1..Len(Relationships)}

\* The value the variable holds in the active run is a trigger value of a
\* rule of its relationship.
HoldsTrigger(fs, source) ==
    /\ HasVar(fs, source)
    /\ \E i \in 1..Len(Relationships[find(Relationships, "source", source)].rules) :
          PyIn(VarIn(fs, source).value,
               Relationships[find(Relationships, "source", source)].rules[i].values)

\* The persisted state propagation for the source leaves, from fs.
Propagated(fs, source) == execute_relationship(fs, fs.config.run, source).fs

\* C15: from the persisted state of a run whose source variable holds a
\* trigger value, propagation for that source run twice in succession
\* leaves the persisted state that running it once leaves.
C15_PropagationIdempotent ==
    (config.exists /\ RunConfigExists(Persisted, config.run)) =>
        \A source \in Sources :
            HoldsTrigger(Persisted, source) =>
                Propagated(Propagated(Persisted, source), source)
                    = Propagated(Persisted, source)

\* The source holds a trigger value and the resource its rule targets was
\* loaded since: propagation changes the persisted state.
C15_Witness ==
    /\ config.exists /\ RunConfigExists(Persisted, config.run)
    /\ HoldsTrigger(Persisted, "mode")
    /\ VarIn(Persisted, "mode").value = StrV("tab")
    /\ execute_relationship(Persisted, config.run, "mode").ok
    /\ Propagated(Persisted, "mode") # Persisted

\* C16: a set of a variable whose relationship holds a rule of another type
\* than "value" fails, whatever the value and wherever the rule stands; so
\* does a set that triggers a target whose kind is neither "value" nor
\* "resource".
C16_UnsupportedRefused ==
    (SetOfVariable /\ Accepted) =>
        /\ (\E i \in 1..Len(RulesOfSet) : RulesOfSet[i].type # "value") =>
                ~last.ok /\ last.err # ""
        /\ (\E i \in Triggered : \E j \in 1..Len(RulesOfSet[i].targets) :
                RulesOfSet[i].targets[j].type \notin {"value", "resource"}) =>
                ~last.ok /\ last.err # ""

\* label was set to a value no rule has as a trigger, and the rule of type
\* "range" behind the value rule ended the set.
C16_Witness ==
    /\ SetOfVariable /\ Accepted
    /\ SetName = "label" /\ last.value = StrV("off")
    /\ Triggered = {}
    /\ ~last.ok /\ last.err = "NotImplementedError"

\* The targets of the rules the set triggered.
TriggeredTargets ==
    UNION {{RulesOfSet[i].targets[j] : j \in 1..Len(RulesOfSet[i].targets)} :
              i \in Triggered}

\* The schemas and the data that the triggered targets of kind "resource"
\* supply for the resource of the variable.
SuppliedSchemas(name) ==
    {t.schema : t \in {u \in TriggeredTargets :
        u.type = "resource" /\ u.name = name /\ u.schema # ""}}

SuppliedData(name) ==
    {t.data : t \in {u \in TriggeredTargets :
        u.type = "resource" /\ u.name = name /\ u.hasData}}

\* The resource of the variable as a read of the active run returns it.
ResourceIn(fs, name) ==
    load_resource_by_variable(fs, fs.config.run, name).resource

\* The field of a resource after the set: as supplied, or as it was.
Replaced(supplied, before, after) ==
    IF supplied = {} THEN after = before ELSE after \in supplied

\* C17: after a set that completes, the resource of every resource variable
\* has the schema a triggered resource target supplied for it, and the
\* schema it had when none supplied one; likewise its data.
C17_ResourceTargetPropagation ==
    (SetOfVariable /\ Accepted /\ last.ok) =>
        \A name \in {"table", "params"} :
            /\ Replaced(SuppliedSchemas(name), ResourceIn(pre, name).schema,
                        ResourceIn(Persisted, name).schema)
            /\ Replaced(SuppliedData(name), ResourceIn(pre, name).data,
                        ResourceIn(Persisted, name).data)

\* mode was set to "on" after a table was loaded: the table has the schema
\* of the target and the data loaded, which the target does not carry.
C17_Witness ==
    /\ SetOfVariable /\ Accepted /\ last.ok
    /\ SetName = "mode" /\ last.value = StrV("on")
    /\ ResourceIn(pre, "table").schema # "s2"
    /\ ResourceIn(Persisted, "table").schema = "s2"
    /\ ResourceIn(Persisted, "table").data = read_csv("a.csv")

\* C18: an init that fails after its name and existence checks leaves no
\* run directory of that name, and leaves the run list and the active-run
\* pointer as they were.
C18_AtomicInit ==
    (last.cmd = "init" /\ Asked.ok /\ Asked.name \notin pre.runDirs
        /\ ~last.ok) =>
        /\ Asked.name \notin runDirs
        /\ datapackage.runs = pre.datapackage.runs
        /\ config = pre.config

\* C19: a propagation that fails part-way has written nothing: the resource
\* files and the other variables of the run are as they were when it began.
C19_CommitAtEnd ==
    (SetOfVariable /\ Accepted /\ last.evaluated # <<>> /\ ~last.ok) =>
        /\ resourceFiles = pre.resourceFiles
        /\ runConfigs = WithValue(pre, SetName, last.value).runConfigs

C21_ActiveRunInvariant ==
    /\ config.exists => config.run \in runDirs
    /\ (last.cmd = "init" /\ last.ok) =>
            config = [exists |-> TRUE, run |-> Asked.name]

\* A second run was initialised: two run directories exist and the pointer
\* names the one just initialised.
C21_Witness ==
    /\ last.cmd = "init" /\ last.ok
    /\ pre.config.exists /\ pre.config.run # Asked.name
    /\ config.run = Asked.name
    /\ {pre.config.run, Asked.name} \subseteq runDirs

\* The names in the run list of the package.
ListedRuns == {datapackage.runs[i] : i \in 1..Len(datapackage.runs)}

\* C22: the run list has no duplicates and every name in it is a run
\* directory that holds a run configuration; when no directory is the
\* remainder of an init that failed after its checks (a directory without
\* run configuration), the list is exactly the set of run directories.
C22_RunListInvariant ==
    /\ Cardinality(ListedRuns) = Len(datapackage.runs)
    /\ ListedRuns \subseteq runDirs
    /\ \A name \in ListedRuns : RunConfigExists(Persisted, name)
    /\ (\A dir \in runDirs : RunConfigExists(Persisted, dir)) =>
            ListedRuns = runDirs

\* Two runs were initialised and one of them was made active again.
C22_Witness ==
    /\ last.cmd = "set_run" /\ last.ok
    /\ config.run # pre.config.run
    /\ Len(datapackage.runs) = 2
    /\ ListedRuns = runDirs

\* C23: without active-run pointer, run, show, view, load, set and get-run
\* fail at the lookup of the active run, and the persisted state is what
\* it was.
C23_ActiveRunGating ==
    (last.cmd \in {"run", "show", "view", "load", "set", "get_run"}
        /\ ~pre.config.exists) =>
        /\ ~last.ok
        /\ last.err = "no active run"
        /\ Persisted = pre

\* A set was refused for want of an active run while a run directory (of
\* an init that failed) existed.
C23_Witness ==
    /\ last.cmd = "set" /\ ~pre.config.exists
    /\ pre.runDirs # {}
    /\ ~last.ok /\ Persisted = pre

\* C24: a set of a declared scalar variable is refused for nullability only
\* when the variable is non-nullable and the value is None; a non-nullable
\* variable accepts every value of its type that is not None (False and ""
\* included) and the run configuration then holds it.
C24_NullabilityRejectsOnlyNull ==
    (SetOfVariable /\ SetSignature.found
        /\ AlgorithmLoadable(get_algorithm_name(pre.config.run))) =>
        /\ last.err = "null" =>
                ~SetSignature.variable.null /\ last.value = NoneV
        /\ (~SetSignature.variable.null
            /\ SetSignature.variable.type \in {"string", "boolean"}
            /\ WellTyped(SetSignature.variable, last.value)
            /\ ~EnumRefuses(SetSignature.variable, last.value)) =>
                /\ Accepted
                /\ VarIn(Persisted, SetName).value = last.value

====
